---------------------------- MODULE Spec2Model ----------------------------
(***************************************************************************)
(* Model of the inflection-analysis backend (src/main.py): the table cache *)
(* (get_calls_info), the request handlers, the aggregation                 *)
(* (prepare_company_dataframe, calculate_monthly_metrics,                  *)
(* calculate_annual_data), the three detection methods                     *)
(* (detect_inflection_points) and the payload builder.                     *)
(*                                                                         *)
(* Four specifications share the module:                                   *)
(*   Spec          the service: a clock, the data source, the cache and    *)
(*                 the two HTTP handlers, one request at a time;           *)
(*   SpecAnalysis  build_analysis_payload applied to bounded tables;       *)
(*   SpecDetect    detect_inflection_points applied to every 12-month      *)
(*                 series of bounded total;                                *)
(*   SpecRace      get_calls_info called by several threads at once, one   *)
(*                 step per read or write of a global.                     *)
(***************************************************************************)
EXTENDS Integers, Sequences, FiniteSets

VARIABLES
    cache,      \* _calls_df_cache: None or the cached table
    lastFetch,  \* _last_data_fetch_time
    clock,      \* time.time()
    fetches,    \* number of tables the data source has delivered so far
    last,       \* what the last handled request did and answered
    table,      \* SpecAnalysis: the table handed to build_analysis_payload
    result,     \* SpecAnalysis: the last request and its outcome
    monthly,    \* SpecDetect: calls per month, months 1..12
    found,      \* SpecDetect: the last detection and its outcome
    inCall,     \* SpecRace: where each thread is in get_calls_info, its locals
    stampedBy   \* SpecRace: the fetch of the call that stored the fetch time

vars ==
    <<cache, lastFetch, clock, fetches, last, table, result, monthly, found,
      inCall, stampedBy>>

-----------------------------------------------------------------------------
(* Python values. A JSON value or a dataframe cell is None, an int or a    *)
(* str; a str is the sequence of its characters.                           *)

None == [t |-> "none", i |-> 0, s |-> <<>>]

PyInt(n) == [t |-> "int", i |-> n, s |-> <<>>]

PyStr(chars) == [t |-> "str", i |-> 0, s |-> chars]

DigitChar == <<"0", "1", "2", "3", "4", "5", "6", "7", "8", "9">>

RECURSIVE Digits(_)
Digits(n) ==
    IF n < 10 THEN <<DigitChar[n + 1]>>
    ELSE Digits(n \div 10) \o <<DigitChar[(n % 10) + 1]>>

\* str(v): the decimal digits of an int, a str unchanged.
Str(v) ==
    CASE v.t = "int"  -> IF v.i < 0 THEN <<"-">> \o Digits(-v.i) ELSE Digits(v.i)
      [] v.t = "str"  -> v.s
      [] v.t = "none" -> <<"N", "o", "n", "e">>

Whitespace == {" "}

RECURSIVE LStrip(_)
LStrip(s) ==
    IF s # <<>> /\ Head(s) \in Whitespace THEN LStrip(Tail(s)) ELSE s

RECURSIVE RStrip(_)
RStrip(s) ==
    IF s # <<>> /\ s[Len(s)] \in Whitespace
    THEN RStrip(SubSeq(s, 1, Len(s) - 1)) ELSE s

\* str.strip()
Strip(s) == RStrip(LStrip(s))

UpperToLower ==
    {<<"A", "a">>, <<"B", "b">>, <<"C", "c">>, <<"D", "d">>, <<"E", "e">>,
     <<"F", "f">>, <<"G", "g">>, <<"H", "h">>, <<"I", "i">>, <<"J", "j">>,
     <<"K", "k">>, <<"L", "l">>, <<"M", "m">>, <<"N", "n">>, <<"O", "o">>,
     <<"P", "p">>, <<"Q", "q">>, <<"R", "r">>, <<"S", "s">>, <<"T", "t">>,
     <<"U", "u">>, <<"V", "v">>, <<"W", "w">>, <<"X", "x">>, <<"Y", "y">>,
     <<"Z", "z">>}

LowerChar(c) ==
    IF \E p \in UpperToLower : p[1] = c
    THEN (CHOOSE p \in UpperToLower : p[1] = c)[2]
    ELSE c

\* str.lower()
Lower(s) == [k \in 1..Len(s) |-> LowerChar(s[k])]

\* Python truthiness of None / str / int
Truthy(v) ==
    CASE v.t = "none" -> FALSE
      [] v.t = "str"  -> v.s # <<>>
      [] v.t = "int"  -> v.i # 0

-----------------------------------------------------------------------------
(* normalize_detection_method, normalize_analysis_mode                     *)

HYBRID ==
    <<"H", "y", "b", "r", "i", "d", " ", "(", "3", "-", "4", " ",
      "m", "o", "n", "t", "h", "s", ")">>

STRICT ==
    <<"M", "a", "t", "h", "e", "m", "a", "t", "i", "c", "a", "l", " ",
      "S", "t", "r", "i", "c", "t">>

ORIGINAL ==
    <<"O", "r", "i", "g", "i", "n", "a", "l", " ", "(",
      "f", "i", "n", "d", "_", "p", "e", "a", "k", "s", ")">>

CanonicalMethods == {HYBRID, STRICT, ORIGINAL}

\* the dict `mapping` of normalize_detection_method, as key/value pairs
MethodMapping ==
    {<<<<"h", "y", "b", "r", "i", "d">>, HYBRID>>,
     <<Lower(HYBRID), HYBRID>>,
     <<<<"m", "a", "t", "h", "e", "m", "a", "t", "i", "c", "a", "l", " ",
         "s", "t", "r", "i", "c", "t">>, STRICT>>,
     <<<<"s", "t", "r", "i", "c", "t">>, STRICT>>,
     <<<<"o", "r", "i", "g", "i", "n", "a", "l">>, ORIGINAL>>,
     <<<<"o", "r", "i", "g", "i", "n", "a", "l", " ", "(",
         "f", "i", "n", "d", "_", "p", "e", "a", "k", "s", ")">>, ORIGINAL>>,
     <<<<"f", "i", "n", "d", "_", "p", "e", "a", "k", "s">>, ORIGINAL>>}

\* mapping.get(key, default)
MappingGet(mapping, key, default) ==
    IF \E p \in mapping : p[1] = key
    THEN (CHOOSE p \in mapping : p[1] = key)[2]
    ELSE default

\* A mutation of normalize_detection_method: an unrecognised name is passed
\* through instead of falling back to the default.
NormalizePassThrough(method) ==
    IF ~Truthy(method) THEN HYBRID
    ELSE LET m == Strip(method.s) IN
         IF m \in CanonicalMethods THEN m
         ELSE MappingGet(MethodMapping, Lower(m), m)

\* normalize_detection_method(method): method is None or a str; the result
\* is a str (its characters).
normalize_detection_method(method) ==
    IF ~Truthy(method) THEN HYBRID
    ELSE LET m == Strip(method.s) IN
         IF m \in CanonicalMethods THEN m
         ELSE MappingGet(MethodMapping, Lower(m), HYBRID)

PERCENTAGES == <<"p", "e", "r", "c", "e", "n", "t", "a", "g", "e", "s">>

ABSOLUTE == <<"a", "b", "s", "o", "l", "u", "t", "e">>

PercentageKeys ==
    {PERCENTAGES,
     <<"p", "e", "r", "c", "e", "n", "t", "a", "g", "e">>,
     <<"p", "e", "r", "c", "e", "n", "t">>,
     <<"p", "o", "r", "c", "e", "n", "t", "a", "j", "e", "s">>}

AbsoluteKeys ==
    {ABSOLUTE,
     <<"a", "b", "s", "o", "l", "u", "t", "o">>,
     <<"a", "b", "s", "o", "l", "u", "t", "e", " ", "n", "u", "m", "b", "e", "r", "s">>}

\* normalize_analysis_mode(mode): mode is None or a str
normalize_analysis_mode(mode) ==
    IF ~Truthy(mode) THEN PERCENTAGES
    ELSE LET key == Lower(Strip(mode.s)) IN
         IF key \in PercentageKeys THEN PERCENTAGES
         ELSE IF key \in AbsoluteKeys THEN ABSOLUTE
         ELSE PERCENTAGES

-----------------------------------------------------------------------------
(* Numbers. The code computes in float64; the model computes the same      *)
(* quotients exactly, as fractions n/d with d > 0 kept in lowest terms.    *)

RECURSIVE GCD(_, _)
GCD(a, b) == IF b = 0 THEN a ELSE GCD(b, a % b)

Abs(a) == IF a < 0 THEN -a ELSE a

Frac(n, d) ==
    LET g == GCD(Abs(n), d) IN [n |-> n \div g, d |-> d \div g]

FLe(a, b) == a.n * b.d <= b.n * a.d

FLt(a, b) == a.n * b.d < b.n * a.d

FEq(a, b) == a.n * b.d = b.n * a.d

FNeg(a) == [n |-> -a.n, d |-> a.d]

FAdd(a, b) == Frac(a.n * b.d + b.n * a.d, a.d * b.d)

\* round(n/d) for n >= 0: to the nearest integer, a tie to the even one
RoundHalfEven(n, d) ==
    LET q == n \div d
        r == n % d
    IN  IF 2 * r < d THEN q
        ELSE IF 2 * r > d THEN q + 1
        ELSE IF q % 2 = 0 THEN q ELSE q + 1

\* round(x, digits) of a fraction x >= 0, in units of 10^-digits
RoundTo(x, digits) ==
    LET scale == IF digits = 4 THEN 10000 ELSE IF digits = 2 THEN 100 ELSE 1
    IN  RoundHalfEven(x.n * scale, x.d)

\* Arrays are functions on 0..n-1, as numpy indexes them.
Size(a) == Cardinality(DOMAIN a)

RECURSIVE SumUpTo(_, _)
SumUpTo(a, k) == IF k < 0 THEN 0 ELSE a[k] + SumUpTo(a, k - 1)

\* ndarray.sum() of an integer-valued array
ArraySum(a) == SumUpTo(a, Size(a) - 1)

RECURSIVE FSumUpTo(_, _)
FSumUpTo(a, k) ==
    IF k < 0 THEN Frac(0, 1) ELSE FAdd(a[k], FSumUpTo(a, k - 1))

\* np.mean of an array of fractions
Mean(a) ==
    LET s == FSumUpTo(a, Size(a) - 1) IN Frac(s.n, s.d * Size(a))

Min(S) == CHOOSE x \in S : \A y \in S : x <= y

Max(S) == CHOOSE x \in S : \A y \in S : y <= x

RECURSIVE SortedList(_)
\* sorted(S) of a set of integers, as a Python list (a sequence)
SortedList(S) ==
    IF S = {} THEN <<>> ELSE <<Min(S)>> \o SortedList(S \ {Min(S)})

\* the ascending array of a set of indices
SortedArray(S) ==
    LET l == SortedList(S) IN [k \in 0..(Len(l) - 1) |-> l[k + 1]]

-----------------------------------------------------------------------------
(* The table. The query of get_calls_info fixes its columns, and its       *)
(* GROUP BY makes (company, state, year, month) a key, so a table is a set *)
(* of rows over these columns.                                             *)

TableColumns ==
    {"company_id", "company_name", "campaigns", "customers", "state",
     "year", "month", "calls"}

MONTHS == 12

Months == [k \in 0..(MONTHS - 1) |-> k + 1]

RECURSIVE SumOf(_, _)
\* Series.sum() of column col over a set of rows
SumOf(rows, col) ==
    IF rows = {} THEN 0
    ELSE LET r == CHOOSE r \in rows : TRUE
         IN  r[col] + SumOf(rows \ {r}, col)

Ok(v) == [exc |-> "none", value |-> v]

Raise(kind) == [exc |-> kind, value |-> None]

\* A mutation of prepare_company_dataframe: the identifiers are compared
\* as they are, without str().
PrepareWithoutStr(calls_df, company_id) ==
    LET company_df == {r \in calls_df.rows : r.company_id = company_id}
    IN  IF company_df = {} THEN Raise("KeyError")
        ELSE IF ~({"year", "month", "calls"} \subseteq calls_df.columns)
        THEN Raise("ValueError")
        ELSE Ok([company_df |-> company_df, company_id_str |-> Str(company_id)])

\* prepare_company_dataframe(calls_df, company_id)
prepare_company_dataframe(calls_df, company_id) ==
    LET company_id_str == Str(company_id)
        company_df ==
            {r \in calls_df.rows : Str(r.company_id) = company_id_str}
    IN  IF company_df = {} THEN Raise("KeyError")
        ELSE IF ~({"year", "month", "calls"} \subseteq calls_df.columns)
        THEN Raise("ValueError")
        ELSE Ok([company_df |-> company_df, company_id_str |-> company_id_str])

\* company_df.groupby('month')['calls'].sum(): month -> total, for the
\* months that have rows
GroupByMonth(company_df) ==
    [m \in {r.month : r \in company_df} |->
        SumOf({r \in company_df : r.month = m}, "calls")]

\* A mutation of the percentages of calculate_monthly_metrics: the
\* denominator counts the first month twice.
PercentagesWrongTotal(monthly_calls, total_calls) ==
    IF total_calls > 0
    THEN [k \in DOMAIN monthly_calls |->
            Frac(monthly_calls[k] * 100, total_calls + monthly_calls[0])]
    ELSE [k \in DOMAIN monthly_calls |-> Frac(0, 1)]

\* monthly_percentages of calculate_monthly_metrics:
\* (monthly_calls / total_calls) * 100.0, or np.zeros(12)
Percentages(monthly_calls, total_calls) ==
    IF total_calls > 0
    THEN [k \in DOMAIN monthly_calls |-> Frac(monthly_calls[k] * 100, total_calls)]
    ELSE [k \in DOMAIN monthly_calls |-> Frac(0, 1)]

\* calculate_monthly_metrics(company_df)
calculate_monthly_metrics(company_df) ==
    LET monthly_totals == GroupByMonth(company_df)
        monthly_calls ==
            [k \in DOMAIN Months |->
                IF Months[k] \in DOMAIN monthly_totals
                THEN monthly_totals[Months[k]] ELSE 0]
        total_calls == ArraySum(monthly_calls)
    IN  [months |-> Months,
         monthly_calls |-> monthly_calls,
         monthly_percentages |-> Percentages(monthly_calls, total_calls),
         total_calls |-> total_calls]

\* calculate_annual_data(company_df, mode): year -> month -> value, or None
\* (here the empty function) when there is no row
calculate_annual_data(company_df, mode) ==
    LET years == {r.year : r \in company_df}
        YearData(y) == {r \in company_df : r.year = y}
        Cell(y, m) ==
            LET value == SumOf({r \in YearData(y) : r.month = m}, "calls")
                year_total == SumOf(YearData(y), "calls")
            IN  IF mode = PERCENTAGES
                THEN IF year_total > 0 THEN Frac(value * 100, year_total)
                     ELSE Frac(0, 1)
                ELSE Frac(value, 1)
    IN  [y \in years |-> [m \in 1..MONTHS |-> Cell(y, m)]]

\* format_annual_table(annual_df, mode): str(year) -> str(month) -> value;
\* a percentage is round(value, 2), kept in hundredths
format_annual_table(annual_df, mode) ==
    LET YearOf(key) == CHOOSE y \in DOMAIN annual_df : Digits(y) = key
        MonthOf(key) == CHOOSE m \in 1..MONTHS : Digits(m) = key
    IN  [yk \in {Digits(y) : y \in DOMAIN annual_df} |->
            [mk \in {Digits(m) : m \in 1..MONTHS} |->
                LET value == annual_df[YearOf(yk)][MonthOf(mk)]
                IN  IF mode = PERCENTAGES THEN RoundTo(value, 2)
                    ELSE RoundTo(value, 0)]]

\* build_curve_data(months, monthly_calls, monthly_percentages); a
\* percentage is round(value, 4), kept in ten-thousandths
build_curve_data(months, monthly_calls, monthly_percentages) ==
    [idx \in 1..Size(months) |->
        [month |-> months[idx - 1],
         percentage |-> RoundTo(monthly_percentages[idx - 1], 4),
         calls |-> monthly_calls[idx - 1]]]

-----------------------------------------------------------------------------
(* Detection. scipy.signal.find_peaks and numpy.argsort are library code   *)
(* called at src/main.py:165 and 178-184; they are modelled from their     *)
(* implementation.  np.argsort is called with its default kind, which is   *)
(* not a stable sort: it returns some permutation that puts the values in  *)
(* ascending order, and which of several equal values comes first depends  *)
(* on the numpy build (the SIMD sorts are not stable).  Every operator     *)
(* that depends on it therefore yields the set of results a build can      *)
(* produce.                                                                *)

Permutations(n) ==
    {p \in [0..(n - 1) -> 0..(n - 1)] :
        \A i, j \in 0..(n - 1) : i # j => p[i] # p[j]}

\* np.argsort(a) for a short array a of fractions: every ascending order
ArgsortOutcomes(a) ==
    {p \in Permutations(Size(a)) :
        \A i \in 0..(Size(a) - 2) : FLe(a[p[i]], a[p[i + 1]])}

RECURSIVE PlateauEnd(_, _, _)
\* the inner while loop of _local_maxima_1d: the next sample unequal to x[i]
PlateauEnd(x, i, i_ahead) ==
    IF i_ahead < Size(x) - 1 /\ FEq(x[i_ahead], x[i])
    THEN PlateauEnd(x, i, i_ahead + 1)
    ELSE i_ahead

RECURSIVE LocalMaximaFrom(_, _)
\* the outer while loop of _local_maxima_1d, from sample i on: the
\* midpoints of the maxima found
LocalMaximaFrom(x, i) ==
    IF i >= Size(x) - 1 THEN {}
    ELSE IF FLt(x[i - 1], x[i])
    THEN LET i_ahead == PlateauEnd(x, i, i + 1)
         IN  IF FLt(x[i_ahead], x[i])
             THEN {(i + (i_ahead - 1)) \div 2} \cup LocalMaximaFrom(x, i_ahead + 1)
             ELSE LocalMaximaFrom(x, i + 1)
    ELSE LocalMaximaFrom(x, i + 1)

\* A mutation of _local_maxima_1d: the first and the last sample count as
\* maxima when their only neighbour is lower.
LocalMaximaWithEdges(x) ==
    LocalMaximaFrom(x, 1)
        \cup {i \in {0} : Size(x) > 1 /\ FLt(x[1], x[0])}
        \cup {i \in {Size(x) - 1} : Size(x) > 1 /\ FLt(x[i - 1], x[i])}

\* _local_maxima_1d(x): the loop runs over samples 1 .. size-2
local_maxima_1d(x) == LocalMaximaFrom(x, 1)

RECURSIVE SelectFrom(_, _, _, _, _)
\* the for loop of _select_by_peak_distance, from position i of the
\* priority order down to 0; keep is the array of flags
SelectFrom(peaks, order, distance, i, keep) ==
    IF i < 0 THEN keep
    ELSE LET j == order[i] IN
         IF ~keep[j] THEN SelectFrom(peaks, order, distance, i - 1, keep)
         ELSE SelectFrom(peaks, order, distance, i - 1,
                [k \in DOMAIN keep |->
                    IF k < j /\ peaks[j] - peaks[k] < distance THEN FALSE
                    ELSE IF k > j /\ peaks[k] - peaks[j] < distance THEN FALSE
                    ELSE keep[k]])

\* A mutation of _select_by_peak_distance: no peak is dropped.
SelectKeepAll(peaks, order, distance) == [k \in DOMAIN peaks |-> TRUE]

\* _select_by_peak_distance(peaks, priority, distance), given the result
\* `order` of np.argsort(priority): peaks is ascending, so the two inner
\* while loops clear the flags of the peaks closer than distance
select_by_peak_distance(peaks, order, distance) ==
    SelectFrom(peaks, order, distance, Size(peaks) - 1,
               [k \in DOMAIN peaks |-> TRUE])

\* find_peaks(x, height=height, distance=distance)[0]: the local maxima, of
\* them those at least `height` high, of them those the distance rule keeps
find_peaks(x, height, distance) ==
    LET tall == {p \in local_maxima_1d(x) : FLe(height, x[p])}
        peaks == SortedArray(tall)
        priority == [k \in DOMAIN peaks |-> x[peaks[k]]]
    IN  {{peaks[k] : k \in {k \in DOMAIN peaks :
                                select_by_peak_distance(peaks, order, distance)[k]}} :
            order \in ArgsortOutcomes(priority)}

\* the two indices that may come first in np.argsort(a) (Size(a) >= 4)
LowestTwo(a) ==
    {{i, j} : <<i, j>> \in
        {q \in (DOMAIN a) \X (DOMAIN a) :
            /\ q[1] < q[2]
            /\ \A o \in DOMAIN a \ {q[1], q[2]} :
                  FLe(a[q[1]], a[o]) /\ FLe(a[q[2]], a[o])}}

\* the two indices that may come last in np.argsort(a) (Size(a) >= 4)
HighestTwo(a) ==
    {{i, j} : <<i, j>> \in
        {q \in (DOMAIN a) \X (DOMAIN a) :
            /\ q[1] < q[2]
            /\ \A o \in DOMAIN a \ {q[1], q[2]} :
                  FLe(a[o], a[q[1]]) /\ FLe(a[o], a[q[2]])}}

\* A mutation of detect_peaks_valleys_quartiles: the peaks are taken from
\* sorted_indices[-3:-1].
QuartilesOffByOne(calls) ==
    LET top == CHOOSE i \in DOMAIN calls :
                    \A o \in DOMAIN calls : FLe(calls[o], calls[i])
        others == [k \in DOMAIN calls \ {top} |-> calls[k]]
    IN  {[peaks |-> P, valleys |-> V] :
            <<V, P>> \in {q \in LowestTwo(calls) \X HighestTwo(others) :
                            q[1] \cap q[2] = {}}}

\* detect_peaks_valleys_quartiles(calls): sorted_indices[:2] and
\* sorted_indices[-2:] of every ascending order of a 12-element array
detect_peaks_valleys_quartiles(calls) ==
    IF Size(calls) = 0 THEN {[peaks |-> {}, valleys |-> {}]}
    ELSE {[peaks |-> P, valleys |-> V] :
            <<V, P>> \in {q \in LowestTwo(calls) \X HighestTwo(calls) :
                            q[1] \cap q[2] = {}}}

ORIGINAL_DISTANCE == 2

HYBRID_DISTANCE == 3

\* detect_inflection_points(monthly_percentages, method): the set of
\* (peaks, valleys) index sets a build can return
detect_inflection_points(monthly_percentages, method) ==
    LET method_normalized == normalize_detection_method(method)
        percentages == monthly_percentages
        negated == [k \in DOMAIN percentages |-> FNeg(percentages[k])]
        Both(distance) ==
            LET average == Mean(percentages)
            IN  {[peaks |-> P, valleys |-> V] :
                    <<P, V>> \in find_peaks(percentages, average, distance)
                                 \X find_peaks(negated, FNeg(average), distance)}
    IN  IF Size(percentages) = 0 THEN {[peaks |-> {}, valleys |-> {}]}
        ELSE IF method_normalized = ORIGINAL THEN Both(ORIGINAL_DISTANCE)
        ELSE IF method_normalized = STRICT
        THEN detect_peaks_valleys_quartiles(percentages)
        ELSE Both(HYBRID_DISTANCE)

-----------------------------------------------------------------------------
(* The payload builder.                                                    *)

\* the characters of the model's strings, in code-point order
CharOrder ==
    <<" ", "(", ")", "-", "0", "1", "2", "3", "4", "5", "6", "7", "8", "9",
      "A", "B", "C", "D", "E", "F", "G", "H", "I", "J", "K", "L", "M", "N",
      "O", "P", "Q", "R", "S", "T", "U", "V", "W", "X", "Y", "Z", "_",
      "a", "b", "c", "d", "e", "f", "g", "h", "i", "j", "k", "l", "m", "n",
      "o", "p", "q", "r", "s", "t", "u", "v", "w", "x", "y", "z">>

CharCode(c) == CHOOSE k \in 1..Len(CharOrder) : CharOrder[k] = c

RECURSIVE StrLess(_, _)
\* a < b for two str
StrLess(a, b) ==
    IF b = <<>> THEN FALSE
    ELSE IF a = <<>> THEN TRUE
    ELSE IF Head(a) = Head(b) THEN StrLess(Tail(a), Tail(b))
    ELSE CharCode(Head(a)) < CharCode(Head(b))

RECURSIVE SortedStrings(_)
\* sorted(S) of a set of str
SortedStrings(S) ==
    IF S = {} THEN <<>>
    ELSE LET least == CHOOSE x \in S : \A y \in S \ {x} : StrLess(x, y)
         IN  <<least>> \o SortedStrings(S \ {least})

\* The rows of one company come in the order of the query's ORDER BY:
\* state (NULL first), then year, then month.
RowBefore(r, o) ==
    IF r.state # o.state
    THEN r.state = None \/ (o.state # None /\ StrLess(r.state.s, o.state.s))
    ELSE IF r.year # o.year THEN r.year < o.year
    ELSE r.month < o.month

\* build_analysis_payload(calls_df, company_id, detection_method,
\* analysis_mode): the outcomes, each a raised exception or a response
\* dict; `seen` keeps the locals company_df and the result of
\* calculate_monthly_metrics for inspection
build_analysis_payload(calls_df, company_id, detection_method_raw, analysis_mode_raw) ==
    LET detection_method == normalize_detection_method(detection_method_raw)
        analysis_mode == normalize_analysis_mode(analysis_mode_raw)
        prepared == prepare_company_dataframe(calls_df, company_id)
        company_df == prepared.value.company_df
        company_id_str == prepared.value.company_id_str
        named == {r \in company_df : r.company_name # None}
        company_name ==
            IF "company_name" \in calls_df.columns /\ named # {}
            THEN (CHOOSE r \in named : \A o \in named \ {r} : RowBefore(r, o))
                    .company_name.s
            ELSE company_id_str
        metrics == calculate_monthly_metrics(company_df)
        months == metrics.months
        curve_data ==
            build_curve_data(months, metrics.monthly_calls, metrics.monthly_percentages)
        annual_df == calculate_annual_data(company_df, analysis_mode)
        annual_table == format_annual_table(annual_df, analysis_mode)
        states == {Str(r.state) : r \in {r \in company_df : r.state # None}}
        summary ==
            [campaigns |-> Max({r.campaigns : r \in company_df}),
             customers |-> SumOf(company_df, "customers"),
             states |-> SortedStrings(states)]
        Response(found_) ==
            [company_id |-> company_id_str,
             company_name |-> company_name,
             detection_method |-> detection_method,
             analysis_mode |-> analysis_mode,
             total_calls |-> RoundHalfEven(metrics.total_calls, 1),
             curve_data |-> curve_data,
             peak_months |-> SortedList({months[idx] : idx \in found_.peaks}),
             valley_months |-> SortedList({months[idx] : idx \in found_.valleys}),
             annual_table |-> annual_table,
             monthly_call_breakdown |->
                [months |-> [k \in 1..Size(months) |-> months[k - 1]],
                 calls |-> [k \in 1..Size(months) |->
                              RoundHalfEven(metrics.monthly_calls[k - 1], 1)],
                 percentages |-> [k \in 1..Size(months) |->
                              RoundTo(metrics.monthly_percentages[k - 1], 4)]],
             year_range |-> <<Min({r.year : r \in company_df}),
                              Max({r.year : r \in company_df})>>,
             summary |-> summary]
    IN  IF prepared.exc # "none"
        THEN {[exc |-> prepared.exc, value |-> None, seen |-> None]}
        ELSE {[exc |-> "none", value |-> Response(f),
               seen |-> [company_df |-> company_df, metrics |-> metrics]] :
                f \in detect_inflection_points(metrics.monthly_percentages,
                                               PyStr(detection_method))}

-----------------------------------------------------------------------------
(* The cache and the handlers.                                             *)

CACHE_EXPIRY_SECONDS == 3600

\* A mutation of get_calls_info: a successful fetch stores the table but
\* not the time.
GetCallsInfoStaleTime(c, lf, now, source, took) ==
    IF c # None /\ now - lf < CACHE_EXPIRY_SECONDS
    THEN [ret |-> Ok(c), cache |-> c, lastFetch |-> lf, now |-> now,
          attempts |-> 0]
    ELSE IF source.exc = "none"
    THEN [ret |-> Ok(source.value), cache |-> source.value,
          lastFetch |-> lf, now |-> now + took, attempts |-> 1]
    ELSE [ret |-> Raise(source.exc), cache |-> c, lastFetch |-> lf,
          now |-> now + took, attempts |-> 1]

\* A mutation of get_calls_info: when the fetch fails and a table is
\* cached, the stale table is returned.
GetCallsInfoStaleFallback(c, lf, now, source, took) ==
    IF c # None /\ now - lf < CACHE_EXPIRY_SECONDS
    THEN [ret |-> Ok(c), cache |-> c, lastFetch |-> lf, now |-> now,
          attempts |-> 0]
    ELSE IF source.exc = "none"
    THEN [ret |-> Ok(source.value), cache |-> source.value,
          lastFetch |-> now + took, now |-> now + took, attempts |-> 1]
    ELSE [ret |-> IF c # None THEN Ok(c) ELSE Raise(source.exc),
          cache |-> c, lastFetch |-> lf, now |-> now + took, attempts |-> 1]

\* get_calls_info(), called at time `now` with cache c and fetch time lf.
\* `source` is what the data source (the BigQuery client and query of the
\* try block) would answer: a table, or an exception of some class; `took`
\* is how long it takes.  The result: what is returned or raised, the cache
\* and the fetch time afterwards, the time afterwards, and how many times
\* the data source was tried.
get_calls_info(c, lf, now, source, took) ==
    IF c # None /\ now - lf < CACHE_EXPIRY_SECONDS
    THEN [ret |-> Ok(c), cache |-> c, lastFetch |-> lf, now |-> now,
          attempts |-> 0]
    ELSE IF source.exc = "none"
    THEN [ret |-> Ok(source.value), cache |-> source.value,
          lastFetch |-> now + took, now |-> now + took, attempts |-> 1]
    ELSE [ret |-> Raise(source.exc), cache |-> c, lastFetch |-> lf,
          now |-> now + took, attempts |-> 1]

\* A mutation of the except clauses: every exception is answered 500.
ExceptStatusAlways500(exc) == 500

\* the except clauses of _handle_inflection_analysis_request
ExceptStatus(exc) ==
    IF exc = "KeyError" THEN 404
    ELSE IF exc = "ValueError" THEN 400
    ELSE 500

\* company_id in (None, '', [])
Missing(v) == v = None \/ v = PyStr(<<>>)

\* _handle_inflection_analysis_request() for the JSON body `body`, whose
\* absent keys are None: the set of possible runs, each with the response
\* (status and JSON), the state of the cache afterwards, what
\* get_calls_info did, and the locals `seen` of build_analysis_payload.
handle_inflection_analysis_request(body, c, lf, now, source, took) ==
    LET company_id ==
            IF Missing(body.company_id) THEN body.companyId ELSE body.company_id
        detection_method == normalize_detection_method(body.detection_method)
        analysis_mode == normalize_analysis_mode(body.analysis_mode)
        got == get_calls_info(c, lf, now, source, took)
        Run(status, json, seen) ==
            [status |-> status, json |-> json, seen |-> seen,
             called |-> TRUE, got |-> got]
    IN  IF Missing(company_id)
        THEN {[status |-> 400, json |-> None, seen |-> None,
               called |-> FALSE,
               got |-> [ret |-> Ok(None), cache |-> c, lastFetch |-> lf,
                        now |-> now, attempts |-> 0]]}
        ELSE IF got.ret.exc # "none"
        THEN {Run(ExceptStatus(got.ret.exc), None, None)}
        ELSE {IF o.exc = "none"
              THEN Run(200, o.value, o.seen)
              ELSE Run(ExceptStatus(o.exc), None, None) :
                o \in build_analysis_payload(got.ret.value, company_id,
                                             PyStr(detection_method),
                                             PyStr(analysis_mode))}

\* get_companies(): the response and what get_calls_info did.  The list of
\* companies is sorted by name; the model keeps its elements.
get_companies(c, lf, now, source, took) ==
    LET got == get_calls_info(c, lf, now, source, took)
        df == got.ret.value
    IN  IF got.ret.exc # "none" \/ df.rows = {}
        THEN [status |-> 500, json |-> None, got |-> got]
        ELSE [status |-> 200,
              json |-> {<<r.company_id, r.company_name>> : r \in df.rows},
              got |-> got]

-----------------------------------------------------------------------------
(* Bounds and inputs.                                                      *)

MaxTotal == 4

MaxRows == 2

StartTime == 5000

MaxElapsed == 5500

\* SpecRace: how many threads serve requests at once
MaxThreads == 2

\* SpecRace: how many tables the data source delivers
MaxFetches == 2

\* how far the clock moves between two requests
TickSteps == {1799, 1801}

\* how long a fetch from the data source takes
FetchTimes == {0, 1801}

\* the classes of exception the data source raises
SourceErrors == {"KeyError", "ValueError", "GoogleAPIError"}

Row(id, name, state, year, month, calls) ==
    [company_id |-> id, company_name |-> name, campaigns |-> 1,
     customers |-> calls, state |-> state, year |-> year, month |-> month,
     calls |-> calls]

Table(ver, rows) == [ver |-> ver, columns |-> TableColumns, rows |-> rows]

Body(company_id, companyId, detection_method, analysis_mode) ==
    [company_id |-> company_id, companyId |-> companyId,
     detection_method |-> detection_method, analysis_mode |-> analysis_mode]

TX == PyStr(<<"T", "X">>)

Acme == PyStr(<<"A", "c", "m", "e">>)

\* SpecAnalysis: the company identifiers of a table, all int or all str,
\* and the name the companies table gives each
IntIds == {PyInt(1), PyInt(12)}

StrIds == {PyStr(<<"1">>), PyStr(<<"1", " ">>)}

NameOf(id) == IF id \in {PyInt(1), PyStr(<<"1">>)} THEN Acme ELSE None

\* a year's rows count none of its calls or all of them: 1 in 2023, 2 in
\* 2024
AnalysisRows ==
    UNION {{Row(id, NameOf(id), TX, year, month, calls) :
                id \in IntIds \cup StrIds, month \in {1, 12},
                calls \in {0, year - 2022}} :
            year \in {2023, 2024}}

AnalysisIds == {PyInt(1), PyStr(<<"1">>), PyStr(<<"1", " ">>), PyInt(7)}

AnalysisBodies ==
    {Body(id, None, method, None) :
        id \in AnalysisIds,
        method \in {None, PyStr(<<>>), PyStr(<<"f", "o", "o">>), PyStr(HYBRID),
                    PyStr(<<" ", "F", "i", "n", "d", "_", "P", "e", "a", "k", "s">>)}}
    \cup {Body(None, id, None, PyStr(<<" ", "A", "b", "s", "o", "l", "u", "t", "e">>)) :
            id \in AnalysisIds \cup {None}}

\* Spec: the tables the data source delivers and the requests made
ServiceRows ==
    {Row(PyInt(1), Acme, TX, 2024, month, (month * 5) % 13) : month \in 1..MONTHS}

ServiceBodies ==
    {Body(None, None, None, None),
     Body(PyStr(<<>>), PyStr(<<"1">>), PyStr(STRICT), None),
     Body(PyInt(7), None, None, None)}

\* SpecDetect: the method names tried
DetectMethods == {None, PyStr(ORIGINAL), PyStr(STRICT), PyStr(HYBRID)}

NotRun == [op |-> "none"]

-----------------------------------------------------------------------------
(* Spec: the service.                                                      *)

IdleAnalysis == table = Table(0, {}) /\ result = NotRun

IdleDetect == monthly = [k \in 0..(MONTHS - 1) |-> 0] /\ found = NotRun

IdleService ==
    /\ cache = None
    /\ lastFetch = 0
    /\ clock = StartTime
    /\ fetches = 0
    /\ last = NotRun

\* no thread is inside get_calls_info
IdleCall == [pc |-> "idle", now |-> 0, df |-> None, ret |-> NotRun]

IdleRace == inCall = [t \in 1..MaxThreads |-> IdleCall] /\ stampedBy = 0

Init == IdleService /\ IdleAnalysis /\ IdleDetect /\ IdleRace

\* time passes between requests
Tick(d) ==
    /\ clock + d <= StartTime + MaxElapsed
    /\ clock' = clock + d
    /\ UNCHANGED <<cache, lastFetch, fetches, last, table, result, monthly, found,
                   inCall, stampedBy>>

\* what the data source would answer now: the next table, or an exception
SourceAnswers ==
    {Ok(Table(fetches + 1, rows)) : rows \in {{}, ServiceRows}}
        \cup {Raise(e) : e \in SourceErrors}

\* what a request did: where get_calls_info was not called, or answered
\* from the cache, the data source's answer played no part
Done(op, body, status, json, called, got, source) ==
    [op |-> op, body |-> body, status |-> status, json |-> json,
     called |-> called, attempts |-> got.attempts, ret |-> got.ret,
     source |-> IF got.attempts = 0 THEN None ELSE source,
     at |-> clock]

\* POST /api/inflection-analysis (and /api/analysis)
AnalysisRequest(body, source, took) ==
    /\ clock + took <= StartTime + MaxElapsed
    /\ \E run \in handle_inflection_analysis_request(
                      body, cache, lastFetch, clock, source, took) :
        /\ cache' = run.got.cache
        /\ lastFetch' = run.got.lastFetch
        /\ clock' = run.got.now
        /\ fetches' = IF cache' # cache THEN fetches + 1 ELSE fetches
        /\ last' = Done("analysis", body, run.status, run.json, run.called,
                        run.got, source)
    /\ UNCHANGED <<table, result, monthly, found, inCall, stampedBy>>

\* GET /api/companies
CompaniesRequest(source, took) ==
    /\ clock + took <= StartTime + MaxElapsed
    /\ LET run == get_companies(cache, lastFetch, clock, source, took) IN
        /\ cache' = run.got.cache
        /\ lastFetch' = run.got.lastFetch
        /\ clock' = run.got.now
        /\ fetches' = IF cache' # cache THEN fetches + 1 ELSE fetches
        /\ last' = Done("companies", None, run.status, run.json, TRUE,
                        run.got, source)
    /\ UNCHANGED <<table, result, monthly, found, inCall, stampedBy>>

Next ==
    \/ \E d \in TickSteps : Tick(d)
    \/ \E body \in ServiceBodies, source \in SourceAnswers, took \in FetchTimes :
            AnalysisRequest(body, source, took)
    \/ \E source \in SourceAnswers, took \in FetchTimes :
            CompaniesRequest(source, took)

Spec == Init /\ [][Next]_vars

-----------------------------------------------------------------------------
(* SpecAnalysis: build_analysis_payload, through the handler, on every     *)
(* table of at most MaxRows rows.                                          *)

SameKind(a, b) == a.t = b.t

\* the data source delivers one more row
AddRow(r) ==
    /\ result = NotRun
    /\ Cardinality(table.rows) < MaxRows
    /\ r \notin table.rows
    /\ \A o \in table.rows :
        /\ SameKind(o.company_id, r.company_id)
        /\ <<o.company_id, o.state, o.year, o.month>>
                # <<r.company_id, r.state, r.year, r.month>>
    /\ table' = Table(0, table.rows \cup {r})
    /\ UNCHANGED <<cache, lastFetch, clock, fetches, last, result, monthly, found,
                   inCall, stampedBy>>

\* a request served from the table, which is in the cache and fresh
Analyse(body) ==
    /\ result = NotRun
    /\ \E run \in handle_inflection_analysis_request(
                      body, table, StartTime, StartTime, Raise("unused"), 0) :
            result' = [op |-> "analysis", body |-> body, status |-> run.status,
                       json |-> run.json, called |-> run.called,
                       seen |-> run.seen]
    /\ UNCHANGED <<cache, lastFetch, clock, fetches, last, table, monthly, found,
                   inCall, stampedBy>>

\* the response is sent; nothing derived is kept
Deliver ==
    /\ result # NotRun
    /\ result' = NotRun
    /\ UNCHANGED <<cache, lastFetch, clock, fetches, last, table, monthly, found,
                   inCall, stampedBy>>

NextAnalysis ==
    \/ \E r \in AnalysisRows : AddRow(r)
    \/ \E body \in AnalysisBodies : Analyse(body)
    \/ Deliver

SpecAnalysis == Init /\ [][NextAnalysis]_vars

-----------------------------------------------------------------------------
(* SpecDetect: detect_inflection_points on the percentages of every        *)
(* 12-month series of at most MaxTotal calls.                              *)

\* one more call in month k + 1
AddCall(k) ==
    /\ found = NotRun
    /\ ArraySum(monthly) < MaxTotal
    /\ monthly' = [monthly EXCEPT ![k] = @ + 1]
    /\ UNCHANGED <<cache, lastFetch, clock, fetches, last, table, result, found,
                   inCall, stampedBy>>

Detect(method) ==
    /\ found = NotRun
    /\ \E f \in detect_inflection_points(
                    Percentages(monthly, ArraySum(monthly)), method) :
            found' = [op |-> "detect",
                      method |-> normalize_detection_method(method),
                      peaks |-> f.peaks, valleys |-> f.valleys]
    /\ UNCHANGED <<cache, lastFetch, clock, fetches, last, table, result, monthly,
                   inCall, stampedBy>>

\* the result is used; nothing is kept
Discard ==
    /\ found # NotRun
    /\ found' = NotRun
    /\ UNCHANGED <<cache, lastFetch, clock, fetches, last, table, result, monthly,
                   inCall, stampedBy>>

NextDetect ==
    \/ \E k \in 0..(MONTHS - 1) : AddCall(k)
    \/ \E method \in DetectMethods : Detect(method)
    \/ Discard

SpecDetect == Init /\ [][NextDetect]_vars

-----------------------------------------------------------------------------
(* SpecRace: get_calls_info() run by several threads.  The function takes  *)
(* no lock, so the threads interleave between any two reads or writes of   *)
(* the globals _calls_df_cache and _last_data_fetch_time and of the clock. *)
(* A thread's pc names the line it is about to execute.                    *)

Threads == 1..MaxThreads

\* the thread's locals after one more step
Step(t, pc, now, df, ret) ==
    inCall' = [inCall EXCEPT ![t] = [pc |-> pc, now |-> now, df |-> df,
                                   ret |-> ret]]

\* line 50, first operand: _calls_df_cache is not None
CheckCache(t) ==
    /\ inCall[t].pc = "idle"
    /\ Step(t, IF cache # None THEN "50_time" ELSE "92", 0, None, NotRun)
    /\ UNCHANGED <<cache, lastFetch, clock, fetches, last, table, result,
                   monthly, found, stampedBy>>

\* line 50, second operand: time.time()
ReadClock(t) ==
    /\ inCall[t].pc = "50_time"
    /\ Step(t, "50_age", clock, None, NotRun)
    /\ UNCHANGED <<cache, lastFetch, clock, fetches, last, table, result,
                   monthly, found, stampedBy>>

\* line 50, second operand: (... - _last_data_fetch_time) < CACHE_EXPIRY_SECONDS
CheckAge(t) ==
    /\ inCall[t].pc = "50_age"
    /\ Step(t, IF inCall[t].now - lastFetch < CACHE_EXPIRY_SECONDS
               THEN "51" ELSE "92",
            inCall[t].now, None, NotRun)
    /\ UNCHANGED <<cache, lastFetch, clock, fetches, last, table, result,
                   monthly, found, stampedBy>>

\* line 51: return _calls_df_cache
ReturnCached(t) ==
    /\ inCall[t].pc = "51"
    /\ Step(t, "idle", inCall[t].now, None, Ok(cache))
    /\ UNCHANGED <<cache, lastFetch, clock, fetches, last, table, result,
                   monthly, found, stampedBy>>

\* line 92: df = client.query(query).to_dataframe(); the data source
\* delivers the next table
Query(t) ==
    /\ inCall[t].pc = "92"
    /\ fetches < MaxFetches
    /\ fetches' = fetches + 1
    /\ Step(t, "95", inCall[t].now, Table(fetches + 1, ServiceRows), NotRun)
    /\ UNCHANGED <<cache, lastFetch, clock, last, table, result, monthly,
                   found, stampedBy>>

\* lines 52-92 raise, lines 101-103 re-raise: neither global is written
QueryFails(t, e) ==
    /\ inCall[t].pc = "92"
    /\ Step(t, "idle", inCall[t].now, None, Raise(e))
    /\ UNCHANGED <<cache, lastFetch, clock, fetches, last, table, result,
                   monthly, found, stampedBy>>

\* line 95: _calls_df_cache = df
StoreTable(t) ==
    /\ inCall[t].pc = "95"
    /\ cache' = inCall[t].df
    /\ Step(t, "96_time", inCall[t].now, inCall[t].df, NotRun)
    /\ UNCHANGED <<lastFetch, clock, fetches, last, table, result, monthly,
                   found, stampedBy>>

\* line 96, right-hand side: time.time()
ReadStoreClock(t) ==
    /\ inCall[t].pc = "96_time"
    /\ Step(t, "96_store", clock, inCall[t].df, NotRun)
    /\ UNCHANGED <<cache, lastFetch, clock, fetches, last, table, result,
                   monthly, found, stampedBy>>

\* line 96: _last_data_fetch_time = ..., then lines 98-99: return df
StoreTime(t) ==
    /\ inCall[t].pc = "96_store"
    /\ lastFetch' = inCall[t].now
    /\ stampedBy' = inCall[t].df.ver
    /\ Step(t, "idle", inCall[t].now, None, Ok(inCall[t].df))
    /\ UNCHANGED <<cache, clock, fetches, last, table, result, monthly,
                   found>>

NextRace ==
    \/ \E d \in TickSteps : Tick(d)
    \/ \E t \in Threads : CheckCache(t)
    \/ \E t \in Threads : ReadClock(t)
    \/ \E t \in Threads : CheckAge(t)
    \/ \E t \in Threads : ReturnCached(t)
    \/ \E t \in Threads : Query(t)
    \/ \E t \in Threads, e \in SourceErrors : QueryFails(t, e)
    \/ \E t \in Threads : StoreTable(t)
    \/ \E t \in Threads : ReadStoreClock(t)
    \/ \E t \in Threads : StoreTime(t)

SpecRace == Init /\ [][NextRace]_vars

-----------------------------------------------------------------------------
(* Properties of the cache and the handlers (Spec).                        *)

\* A step in which a request was handled.  A request records the time it
\* was made at, so every step of a request that changes anything changes
\* `last`; Tick never does.
Handled == last' # last

\* a step in which get_calls_info was called
GetTableCalled == Handled /\ last'.called

\* C1: every call of get_calls_info with a populated cache younger than
\* 3600 seconds returns the cached table without trying the data source;
\* every other call tries the data source exactly once and, when that
\* succeeds, caches the fresh table, sets the fetch time to the current
\* time and returns the fresh table.
C1_CacheHitOrSingleFetch ==
    [][GetTableCalled =>
        IF cache # None /\ clock - lastFetch < 3600
        THEN /\ last'.attempts = 0
             /\ last'.ret = Ok(cache)
             /\ cache' = cache
             /\ lastFetch' = lastFetch
        ELSE /\ last'.attempts = 1
             /\ last'.source.exc = "none" =>
                    /\ last'.source.value.ver = fetches + 1
                    /\ cache' = last'.source.value
                    /\ lastFetch' = clock'
                    /\ last'.ret = Ok(last'.source.value)]_vars

\* C1 witness: an expired table has been replaced by a second fetch.
C1_Witness ==
    /\ last # NotRun
    /\ last.attempts = 1
    /\ last.ret.exc = "none"
    /\ fetches = 2
    /\ cache = last.ret.value
    /\ lastFetch = clock

\* the last request tried the data source and the data source failed
FetchFailed(l) ==
    l # NotRun /\ l.called /\ l.attempts = 1 /\ l.source.exc # "none"

C4_UpstreamFailureIs500 ==
    (last # NotRun /\ last.op = "analysis" /\ FetchFailed(last)) =>
        last.status = 500 /\ last.attempts = 1

-----------------------------------------------------------------------------
(* Properties of the aggregation and the payload (SpecAnalysis).           *)

Analysed == result # NotRun /\ result.called

\* the company identifier the handler takes from the body
RequestedId(body) ==
    IF Missing(body.company_id) THEN body.companyId ELSE body.company_id

\* the rows of the table whose identifier reads the same as the requested
\* one, as str
RowsOf(id) == {r \in table.rows : Str(r.company_id) = Str(id)}

\* the rows the analysis was computed from
Selected == IF result.seen = None THEN {} ELSE result.seen.company_df

PayloadFields ==
    {"company_id", "company_name", "detection_method", "analysis_mode",
     "total_calls", "curve_data", "peak_months", "valley_months",
     "annual_table", "monthly_call_breakdown", "year_range", "summary"}

\* C3: the analysis answers 404, with no payload, exactly when no row of
\* the table is of the requested company; when some row is, it answers
\* with a complete payload.
C3_NotFoundIffNoRows ==
    Analysed =>
        LET rows == RowsOf(RequestedId(result.body)) IN
        /\ result.status = 404 <=> rows = {}
        /\ result.status = 404 => result.json = None
        /\ rows # {} =>
            /\ result.status = 200
            /\ result.json # None
            /\ DOMAIN result.json = PayloadFields

\* C3 witness: the table has rows, none of the requested company, and the
\* answer is 404.
C3_Witness ==
    Analysed /\ result.status = 404 /\ table.rows # {}

KnownMethodNames ==
    {Lower(m) : m \in CanonicalMethods} \cup {p[1] : p \in MethodMapping}

Unrecognized(method) ==
    method = None \/ Lower(Strip(method.s)) \notin KnownMethodNames

\* the payloads the handler can answer a body with
Answers(body) ==
    {run.json : run \in handle_inflection_analysis_request(
                    body, table, StartTime, StartTime, Raise("unused"), 0)}

\* C9: the normalized method is one of the three canonical names and
\* normalizing it again changes nothing; an absent, empty or unrecognized
\* name gives "Hybrid (3-4 months)", and the answer is the one given when
\* that literal name is passed.
C9_NormalizationIdempotent ==
    Analysed =>
        LET raw == result.body.detection_method
            name == normalize_detection_method(raw)
            literal == [result.body EXCEPT !.detection_method = PyStr(HYBRID)]
        IN  /\ name \in CanonicalMethods
            /\ normalize_detection_method(PyStr(name)) = name
            /\ result.status = 200 => result.json.detection_method = name
            /\ Unrecognized(raw) =>
                /\ name = HYBRID
                /\ result.json \in Answers(literal)
                /\ Answers(result.body) = Answers(literal)

\* C9 witness: a request with detection_method "foo" was answered.
C9_Witness ==
    /\ Analysed
    /\ result.body.detection_method = PyStr(<<"f", "o", "o">>)
    /\ result.status = 200

\* the calls of a set of rows, added up
RECURSIVE TotalCalls(_)
TotalCalls(rows) ==
    IF rows = {} THEN 0
    ELSE LET r == CHOOSE r \in rows : TRUE IN r.calls + TotalCalls(rows \ {r})

\* C10: for a company with rows, the monthly series has the 12 entries of
\* months 1..12; each month's calls are the company's calls of that month
\* over all years (0 without rows); each percentage is
\* monthCalls / totalCalls * 100, so the percentages add up to 100 when
\* totalCalls > 0, and all are 0 when totalCalls is 0.
C10_MonthlySeries ==
    (Analysed /\ result.status = 200) =>
        LET rows == RowsOf(RequestedId(result.body))
            m == result.seen.metrics
            total == TotalCalls(rows)
        IN  /\ DOMAIN m.months = 0..11
            /\ DOMAIN m.monthly_calls = 0..11
            /\ DOMAIN m.monthly_percentages = 0..11
            /\ m.total_calls = total
            /\ \A k \in 0..11 :
                /\ m.months[k] = k + 1
                /\ m.monthly_calls[k] = TotalCalls({r \in rows : r.month = k + 1})
                /\ total > 0 =>
                    m.monthly_percentages[k].n * total
                        = m.monthly_calls[k] * 100 * m.monthly_percentages[k].d
                /\ total = 0 => m.monthly_percentages[k].n = 0
            /\ total > 0 =>
                FEq(FSumUpTo(m.monthly_percentages, 11), Frac(100, 1))

\* C10 witness: the company has calls in the same month of two years.
C10_Witness ==
    /\ Analysed
    /\ result.status = 200
    /\ \E r, o \in Selected :
        r.month = o.month /\ r.year # o.year /\ r.calls > 0 /\ o.calls > 0

-----------------------------------------------------------------------------
(* Properties of the detection (SpecDetect).                               *)

Detected(methods) == found # NotRun /\ found.method \in methods

\* i comes before j in the stable ascending order of the series
StableBefore(i, j) ==
    monthly[i] < monthly[j] \/ (monthly[i] = monthly[j] /\ i < j)

\* the first two and the last two months of the stable ascending order
StableFirstTwo ==
    {i \in 0..11 : Cardinality({j \in 0..11 : StableBefore(j, i)}) < 2}

StableLastTwo ==
    {i \in 0..11 : Cardinality({j \in 0..11 : StableBefore(i, j)}) < 2}

Separation(method) == IF method = ORIGINAL THEN 2 ELSE 3

\* C7: two distinct peaks of Original are at least 2 months apart, of
\* Hybrid at least 3; the same for valleys.
C7_MinimumSeparation ==
    Detected({ORIGINAL, HYBRID}) =>
        \A S \in {found.peaks, found.valleys} :
            \A i, j \in S :
                i # j => Abs(i - j) >= Separation(found.method)

\* C7 witness: Hybrid kept a peak and dropped the local maximum two
\* months after it.
C7_Witness ==
    /\ Detected({HYBRID})
    /\ \E q \in found.peaks :
        /\ q + 3 <= 11
        /\ monthly[q + 2] > monthly[q + 1]
        /\ monthly[q + 2] > monthly[q + 3]
        /\ monthly[q + 2] * 12 >= ArraySum(monthly)
        /\ (q + 2) \notin found.peaks

\* month index i exceeds the mean and no month within `reach` of it is
\* higher
BoundaryMaximum(i, reach) ==
    /\ monthly[i] * 12 > ArraySum(monthly)
    /\ \A j \in 0..11 : Abs(i - j) <= reach => monthly[j] <= monthly[i]

\* C8 as claimed: under Original and Hybrid, month 1 or 12, when above the
\* mean and with no higher month within the separation window, is a peak.
C8_BoundaryPeak ==
    Detected({ORIGINAL, HYBRID}) =>
        \A i \in {0, 11} :
            BoundaryMaximum(i, Separation(found.method)) => i \in found.peaks

\* C8: under Original and Hybrid, month 1 and month 12 are never peaks,
\* also when above the mean and with no higher month near; calls
\* concentrated in month 1 or 12 give no peak at all.
C8_BoundaryNeverPeak ==
    Detected({ORIGINAL, HYBRID}) =>
        /\ found.peaks \cap {0, 11} = {}
        /\ \A i \in {0, 11} :
            (ArraySum(monthly) > 0 /\ monthly[i] = ArraySum(monthly))
                => found.peaks = {}

\* C8 witness: all calls are in month 1 and Hybrid has run.
C8_Witness ==
    /\ Detected({HYBRID})
    /\ monthly[0] > 0
    /\ monthly[0] = ArraySum(monthly)
    /\ found.peaks = {}

-----------------------------------------------------------------------------
(* C11: under any interleaving of concurrent get_calls_info calls that     *)
(* find the cache empty or expired, the cached table and the stored fetch  *)
(* time stay paired: in every state where no call is between its write of  *)
(* the table (line 95) and its write of the fetch time (line 96), the      *)
(* stored fetch time was written by the call that wrote the cached table.  *)

\* the thread has stored its table and not yet its fetch time
BetweenWrites(t) == inCall[t].pc \in {"96_time", "96_store"}

\* the fetch (0: none) whose table is in the cache
CachedFetch == IF cache = None THEN 0 ELSE cache.ver

C11_TableAndTimePaired ==
    (\A t \in Threads : ~BetweenWrites(t)) => stampedBy = CachedFetch

=============================================================================
